---- MODULE Spec2Model ----
(***************************************************************************)
(* Model of fast-rcnn/lib/fast_rcnn/config.py: the default configuration   *)
(* __C, the strict recursive merge _merge_a_into_b, the derived-value      *)
(* computation _add_more_info and the loader cfg_from_file.                *)
(*                                                                         *)
(* Values.  Every Python value is a record with a type tag t:              *)
(*   int      [t |-> "int",   n |-> k, d |-> 1]                            *)
(*   float    [t |-> "float", n |-> p, d |-> q]   the exact rational p/q,  *)
(*            q > 0 and gcd(p, q) = 1; q = 0 encodes the IEEE specials     *)
(*            numpy produces: 1/0 is inf and 0/0 is nan                    *)
(*   tuple    [t |-> "tuple", e |-> <<v1, ..., vm>>]                       *)
(*   list     [t |-> "list",  e |-> <<...>>]                               *)
(*   ndarray  [t |-> "ndarray", e |-> <<...>>]                             *)
(*   edict    [t |-> "edict", kv |-> [key |-> value]]   a config section   *)
(* Floats are modelled by exact rationals: rounding is not represented.    *)
(***************************************************************************)
EXTENDS Integers, Sequences, FiniteSets, TLC

VARIABLES cfg, yaml_cfg, stack, pc, exc, cfg0, assigned, offending, reads

vars == <<cfg, yaml_cfg, stack, pc, exc, cfg0, assigned, offending, reads>>

(* ------------------------------ bounds --------------------------------- *)

\* Largest number of options one override file specifies.
MaxOverrides == 2

\* Largest length of SCALES_BASE drawn for a direct _add_more_info call.
MaxLen == 3

\* Largest NUM_PER_OCTAVE drawn for a direct _add_more_info call.
MaxN == 3

(* ------------------------- Python 2 arithmetic ------------------------- *)

Abs(x) == IF x < 0 THEN -x ELSE x

RECURSIVE GCD(_, _)
GCD(a, b) == IF b = 0 THEN a ELSE GCD(b, a % b)

Gcd(a, b) == GCD(Abs(a), Abs(b))

I(k) == [t |-> "int", n |-> k, d |-> 1]

\* The float p/q in lowest terms, q # 0.
F(p, q) ==
    LET s == IF q < 0 THEN -1 ELSE 1
        g == Gcd(p, q)
    IN  [t |-> "float", n |-> (s * p) \div g, d |-> (s * q) \div g]

Inf == [t |-> "float", n |-> 1, d |-> 0]
NaN == [t |-> "float", n |-> 0, d |-> 0]

IsInf(x) == x.d = 0 /\ x.n # 0
IsNaN(x) == x.d = 0 /\ x.n = 0
IsZero(x) == x.d # 0 /\ x.n = 0

BothInt(x, y) == x.t = "int" /\ y.t = "int"

\* p/q as a value of the type Python gives the result of x op y.
Typed(x, y, p, q) == IF BothInt(x, y) THEN I(p \div q) ELSE F(p, q)

PyAdd(x, y) == Typed(x, y, x.n * y.d + y.n * x.d, x.d * y.d)

PySub(x, y) == Typed(x, y, x.n * y.d - y.n * x.d, x.d * y.d)

\* Products are cancelled crosswise, which leaves the product in lowest
\* terms with no intermediate result larger than it.
PyMul(x, y) ==
    LET g1 == Gcd(x.n, y.d)
        g2 == Gcd(y.n, x.d)
    IN  [t |-> IF BothInt(x, y) THEN "int" ELSE "float",
         n |-> (x.n \div g1) * (y.n \div g2),
         d |-> (x.d \div g2) * (y.d \div g1)]

\* x * x; a number in lowest terms has its square in lowest terms.
PySquare(x) == [x EXCEPT !.n = @ * @, !.d = @ * @]

\* Floor division for integers (both operands int), as in Python 2.
FloorDiv(p, q) == IF q > 0 THEN p \div q ELSE (-p) \div (-q)

\* x / y of Python 2 for y # 0: floor division of two ints, true division
\* as soon as one operand is a float.
PyDiv(x, y) ==
    IF BothInt(x, y)
    THEN I(FloorDiv(x.n, y.n))
    ELSE PyMul([x EXCEPT !.t = "float"], F(y.d, y.n))

\* x % y of Python 2 on ints, y > 0.
PyMod(i, n) == i % n

\* x < y for finite numbers, compared over the least common denominator.
NumLess(x, y) ==
    LET g == Gcd(x.d, y.d)
    IN  x.n * (y.d \div g) < y.n * (x.d \div g)

(* --------------------------- config trees ------------------------------ *)

Tuple(es) == [t |-> "tuple", e |-> es]
List(es) == [t |-> "list", e |-> es]
NdArray(es) == [t |-> "ndarray", e |-> es]
Edict(f) == [t |-> "edict", kv |-> f]

\* type(v) is edict
IsSection(v) == v.t = "edict"

\* b.has_key(k) for a section b.
HasKey(b, k) == k \in DOMAIN b.kv

\* type(x) is type(y): identity of the exact type, no coercion.
SameType(x, y) == x.t = y.t

\* The value under a key path; path <<>> is the tree itself.
RECURSIVE Get(_, _)
Get(tree, path) ==
    IF path = <<>> THEN tree ELSE Get(tree.kv[Head(path)], Tail(path))

\* Whether every key of the path exists, each inside a section.
RECURSIVE Has(_, _)
Has(tree, path) ==
    \/ path = <<>>
    \/ /\ IsSection(tree)
       /\ HasKey(tree, Head(path))
       /\ Has(tree.kv[Head(path)], Tail(path))

\* section[k] = v: item assignment, adding the key when it is new.
SetItem(section, k, v) ==
    Edict([x \in DOMAIN section.kv \cup {k} |->
              IF x = k THEN v ELSE section.kv[x]])

\* The tree with the item at an existing section path assigned.
RECURSIVE Set(_, _, _)
Set(tree, path, v) ==
    IF Len(path) = 1
    THEN SetItem(tree, Head(path), v)
    ELSE SetItem(tree, Head(path), Set(tree.kv[Head(path)], Tail(path), v))

\* All key paths of a tree, sections included (path <<>> excluded).
RECURSIVE Paths(_)
Paths(tree) ==
    IF ~IsSection(tree) THEN {}
    ELSE UNION {{<<k>>} \cup {<<k>> \o p : p \in Paths(tree.kv[k])} :
                k \in DOMAIN tree.kv}

\* The key paths of the non-section (leaf) options of a tree.
LeafPaths(tree) == {p \in Paths(tree) : ~IsSection(Get(tree, p))}

\* The key paths of the sections of a tree, the root included.
SectionPaths(tree) == {<<>>} \cup {p \in Paths(tree) : IsSection(Get(tree, p))}

IsPrefix(p, q) == Len(p) <= Len(q) /\ SubSeq(q, 1, Len(p)) = p

(* ------------------------- default options ----------------------------- *)

\* __C.TRAIN.SCALES_BASE and __C.TEST.SCALES_BASE
DefaultScalesBase == Tuple(<<F(1, 4), F(1, 2), F(1, 1), F(2, 1), F(3, 1)>>)

\* __C.TRAIN.ASPECTS and __C.TEST.ASPECTS
DefaultAspects == Tuple(<<I(1), F(3, 4), F(1, 2), F(1, 4)>>)

\* __C.TRAIN, restricted to the options _add_more_info reads.
DefaultTrain ==
    Edict([SCALES_BASE |-> DefaultScalesBase,
           NUM_PER_OCTAVE |-> I(4),
           SPATIAL_SCALE |-> F(1, 16),
           KERNEL_SIZE |-> I(5),
           ASPECTS |-> DefaultAspects])

\* __C.TEST, restricted to the options _add_more_info reads.
DefaultTest ==
    Edict([SCALES_BASE |-> DefaultScalesBase,
           NUM_PER_OCTAVE |-> I(4),
           ASPECTS |-> DefaultAspects,
           SPATIAL_SCALE |-> F(1, 16),
           KERNEL_SIZE |-> I(5)])

\* __C after the module is imported: the two sections and, of the global
\* scalar options, RNG_SEED (the others are merged exactly like it).
DefaultCfg ==
    Edict([TRAIN |-> DefaultTrain, TEST |-> DefaultTest, RNG_SEED |-> I(3)])

(* -------------------------- override files ----------------------------- *)

\* Key paths an override file may give a value to: options of the defaults,
\* keys the defaults do not have (BOGUS, X), a section name given a scalar
\* (TRAIN) and a scalar option given a section (RNG_SEED.X).
Slots ==
    {<<"RNG_SEED">>, <<"BOGUS">>, <<"TRAIN">>, <<"RNG_SEED", "X">>,
     <<"TRAIN", "SCALES_BASE">>, <<"TRAIN", "NUM_PER_OCTAVE">>,
     <<"TRAIN", "KERNEL_SIZE">>, <<"TRAIN", "SPATIAL_SCALE">>,
     <<"TRAIN", "BOGUS">>,
     <<"TEST", "SCALES_BASE">>, <<"TEST", "NUM_PER_OCTAVE">>}

\* Values an override file may give: an int, a float, a tuple.
Pool == {I(0), I(2), F(1, 8), Tuple(<<F(1, 2), F(1, 1)>>)}

PrefixFree(P) == \A p, q \in P : p # q => ~IsPrefix(p, q)

\* The nested mapping that gives each path of DOMAIN f the value f[path]:
\* what edict(yaml.load(f)) builds from the file.
RECURSIVE Tree(_, _)
Tree(f, prefix) ==
    LET n == Len(prefix)
        below == {p \in DOMAIN f : Len(p) > n /\ SubSeq(p, 1, n) = prefix}
        keys == {p[n + 1] : p \in below}
    IN  Edict([k \in keys |->
                 LET q == Append(prefix, k)
                 IN  IF q \in DOMAIN f THEN f[q] ELSE Tree(f, q)])

Overrides ==
    UNION {{Tree(f, <<>>) : f \in [P -> Pool]} :
           P \in {Q \in SUBSET Slots : Cardinality(Q) <= MaxOverrides /\ PrefixFree(Q)}}

(* ------------------------- _merge_a_into_b ----------------------------- *)

\* The state after the module is imported: the defaults, nothing loaded.
\* cfg0, assigned and offending record, for the call of cfg_from_file, the
\* config the merge started from, the leaf paths b[k] = v was executed for
\* and the key path that raised.  reads records the indices at
\* which _add_more_info subscripted SCALES_BASE of each section.
Init ==
    /\ cfg = DefaultCfg
    /\ yaml_cfg = Edict(<<>>)
    /\ stack = <<>>
    /\ pc = "start"
    /\ exc = "none"
    /\ cfg0 = DefaultCfg
    /\ assigned = {}
    /\ offending = <<>>
    /\ reads = [TRAIN |-> {}, TEST |-> {}]

\* One activation of _merge_a_into_b(a, b): the key path of a and b, and the
\* keys of a that a.iteritems() has not produced yet.
Frame(path, a) == [path |-> path, todo |-> DOMAIN a.kv]

\* Entering _merge_a_into_b(a, b) with a at the given path: a value that is
\* not an edict returns at once, an edict starts the loop over its items.
MergeCall(stk, path, a) ==
    IF ~IsSection(a) THEN stk ELSE Append(stk, Frame(path, a))

Top == stack[Len(stack)]

\* The stack with key k taken from the innermost loop.
Visited(k) == [stack EXCEPT ![Len(stack)].todo = @ \ {k}]

\* raise, with b restored to its state before the merge.
RaiseRollback(name, path) ==
    /\ exc' = name
    /\ offending' = path
    /\ pc' = "raised"
    /\ stack' = <<>>
    /\ cfg' = cfg0
    /\ UNCHANGED <<yaml_cfg, cfg0, assigned, reads>>

\* raise: no activation catches the exception (the except clause of the
\* recursive call prints and raises again), so cfg_from_file is left too.
Raise(name, path) ==
    /\ exc' = name
    /\ offending' = path
    /\ pc' = "raised"
    /\ stack' = <<>>
    /\ UNCHANGED <<cfg, yaml_cfg, cfg0, assigned, reads>>

\* cfg_from_file(filename) up to the call of _merge_a_into_b(yaml_cfg, __C).
CfgFromFile ==
    /\ pc = "start"
    /\ \E a \in Overrides :
          /\ yaml_cfg' = a
          /\ stack' = MergeCall(<<>>, <<>>, a)
    /\ pc' = "merge"
    /\ cfg0' = cfg
    /\ UNCHANGED <<cfg, exc, assigned, offending, reads>>

\* A key b does not have is added to b instead of being refused.
MergeKeyAdd ==
    /\ pc = "merge" /\ stack # <<>>
    /\ \E k \in Top.todo :
          /\ ~HasKey(Get(cfg, Top.path), k)
          /\ cfg' = Set(cfg, Append(Top.path, k), Get(yaml_cfg, Top.path).kv[k])
          /\ stack' = Visited(k)
    /\ UNCHANGED <<yaml_cfg, pc, exc, cfg0, assigned, offending, reads>>

\* if not b.has_key(k): raise KeyError
MergeKeyError ==
    /\ pc = "merge" /\ stack # <<>>
    /\ \E k \in Top.todo :
          /\ ~HasKey(Get(cfg, Top.path), k)
          /\ Raise("KeyError", Append(Top.path, k))

\* A value of another type is skipped (continue) instead of being refused.
MergeValueSkip ==
    /\ pc = "merge" /\ stack # <<>>
    /\ \E k \in Top.todo :
          LET a == Get(yaml_cfg, Top.path)
              b == Get(cfg, Top.path)
          IN  /\ HasKey(b, k)
              /\ ~SameType(b.kv[k], a.kv[k])
              /\ stack' = Visited(k)
    /\ UNCHANGED <<cfg, yaml_cfg, pc, exc, cfg0, assigned, offending, reads>>

\* if type(b[k]) is not type(v): raise ValueError
MergeValueError ==
    /\ pc = "merge" /\ stack # <<>>
    /\ \E k \in Top.todo :
          LET a == Get(yaml_cfg, Top.path)
              b == Get(cfg, Top.path)
          IN  /\ HasKey(b, k)
              /\ ~SameType(b.kv[k], a.kv[k])
              /\ Raise("ValueError", Append(Top.path, k))

\* A section of a replaces the section of b instead of being merged into it.
MergeReplaceSection ==
    /\ pc = "merge" /\ stack # <<>>
    /\ \E k \in Top.todo :
          LET a == Get(yaml_cfg, Top.path)
              b == Get(cfg, Top.path)
          IN  /\ HasKey(b, k)
              /\ SameType(b.kv[k], a.kv[k])
              /\ IsSection(a.kv[k])
              /\ cfg' = Set(cfg, Append(Top.path, k), a.kv[k])
              /\ stack' = Visited(k)
    /\ UNCHANGED <<yaml_cfg, pc, exc, cfg0, assigned, offending, reads>>

\* if type(v) is edict: _merge_a_into_b(a[k], b[k])
MergeRecurse ==
    /\ pc = "merge" /\ stack # <<>>
    /\ \E k \in Top.todo :
          LET a == Get(yaml_cfg, Top.path)
              b == Get(cfg, Top.path)
          IN  /\ HasKey(b, k)
              /\ SameType(b.kv[k], a.kv[k])
              /\ IsSection(a.kv[k])
              /\ stack' = MergeCall(Visited(k), Append(Top.path, k), a.kv[k])
    /\ UNCHANGED <<cfg, yaml_cfg, pc, exc, cfg0, assigned, offending, reads>>

\* The value is bound to a local name and b[k] is never stored.
MergeAssignLocal ==
    /\ pc = "merge" /\ stack # <<>>
    /\ \E k \in Top.todo :
          LET a == Get(yaml_cfg, Top.path)
              b == Get(cfg, Top.path)
          IN  /\ HasKey(b, k)
              /\ SameType(b.kv[k], a.kv[k])
              /\ ~IsSection(a.kv[k])
              /\ assigned' = assigned \cup {Append(Top.path, k)}
              /\ stack' = Visited(k)
    /\ UNCHANGED <<cfg, yaml_cfg, pc, exc, cfg0, offending, reads>>

\* else: b[k] = v
MergeAssign ==
    /\ pc = "merge" /\ stack # <<>>
    /\ \E k \in Top.todo :
          LET a == Get(yaml_cfg, Top.path)
              b == Get(cfg, Top.path)
          IN  /\ HasKey(b, k)
              /\ SameType(b.kv[k], a.kv[k])
              /\ ~IsSection(a.kv[k])
              /\ cfg' = Set(cfg, Append(Top.path, k), a.kv[k])
              /\ assigned' = assigned \cup {Append(Top.path, k)}
              /\ stack' = Visited(k)
    /\ UNCHANGED <<yaml_cfg, pc, exc, cfg0, offending, reads>>

\* The loop over a.iteritems() is exhausted: the activation returns, the
\* outermost one to cfg_from_file, which goes on to _add_more_info(1).
MergeReturn ==
    /\ pc = "merge"
    /\ stack = <<>> \/ Top.todo = {}
    /\ stack' = IF stack = <<>> THEN stack ELSE SubSeq(stack, 1, Len(stack) - 1)
    /\ pc' = IF Len(stack) <= 1 THEN "info_train" ELSE pc
    /\ UNCHANGED <<cfg, yaml_cfg, exc, cfg0, assigned, offending, reads>>

(* --------------------------- _add_more_info ---------------------------- *)

\* 224 * 224, the area the RoI pooling scales are matched to.
Target == I(224 * 224)

\* t[idx] of Python for a tuple of m elements: indices -m .. m-1 are valid
\* (negative ones count from the end), any other raises IndexError.
ValidIndex(m, idx) == -m <= idx /\ idx < m

PyIndex(es, idx) == IF idx < 0 THEN es[Len(es) + idx + 1] ELSE es[idx + 1]

\* One scale too many per base scale: num_scale_base * num_per_octave + 1.
NumScalesPerBase(num_scale_base, num_per_octave) ==
    num_scale_base * num_per_octave + 1

\* num = (num_scale_base - 1) * num_per_octave + 1
NumScales(num_scale_base, num_per_octave) ==
    (num_scale_base - 1) * num_per_octave + 1

\* step = (sbase_next - sbase) / num_per_octave; sbase + j * step
Interpolate(sbase, sbase_next, j, num_per_octave) ==
    LET step == PyDiv(PySub(sbase_next, sbase), I(num_per_octave))
    IN  PyAdd(sbase, PyMul(I(j), step))

\* The loop for i in xrange(num), from counter i on: the scales appended so
\* far, the indices SCALES_BASE was subscripted with, and the exception that
\* ended the loop, if any.
RECURSIVE ScalesLoop(_, _, _, _, _)
ScalesLoop(scales_base, num_per_octave, i, scales, rd) ==
    LET m == Len(scales_base)
        idx == FloorDiv(i, num_per_octave)
        j == PyMod(i, num_per_octave)
        out(e, r) == [exc |-> e, scales |-> scales, reads |-> r]
    IN  IF i >= NumScales(m, num_per_octave) THEN out("none", rd)
        ELSE IF num_per_octave = 0 THEN out("ZeroDivisionError", rd)
        ELSE IF ~ValidIndex(m, idx) THEN out("IndexError", rd \cup {idx})
        ELSE IF j = 0
        THEN ScalesLoop(scales_base, num_per_octave, i + 1,
                        Append(scales, PyIndex(scales_base, idx)), rd \cup {idx})
        ELSE IF ~ValidIndex(m, idx + 1)
        THEN out("IndexError", rd \cup {idx, idx + 1})
        ELSE ScalesLoop(scales_base, num_per_octave, i + 1,
                        Append(scales,
                               Interpolate(PyIndex(scales_base, idx),
                                           PyIndex(scales_base, idx + 1),
                                           j, num_per_octave)),
                        rd \cup {idx, idx + 1})

\* numpy's elementwise float division: x / 0 is inf, 0 / 0 is nan.
NpDiv(x, y) ==
    IF IsZero(y) THEN (IF IsZero(x) THEN NaN ELSE Inf)
    ELSE PyDiv([x EXCEPT !.t = "float"], y)

\* numpy's elementwise float product: inf * 0 is nan.
NpMul(x, y) ==
    IF IsNaN(x) \/ IsNaN(y) THEN NaN
    ELSE IF IsInf(x) \/ IsInf(y)
    THEN (IF IsZero(x) \/ IsZero(y) THEN NaN ELSE Inf)
    ELSE PyMul([x EXCEPT !.t = "float"], y)

\* np.abs(x - 224 * 224)
NpAbsDiff(x) ==
    IF x.d = 0 THEN x
    ELSE LET v == PySub(x, Target) IN [v EXCEPT !.n = Abs(@)]

\* x < y in the order argmin uses on floats: inf is above every number.
NpLess(x, y) == ~IsInf(x) /\ (IsInf(y) \/ NumLess(x, y))

\* Whether argmin prefers entry x to the entry y it holds so far: a nan is
\* taken once and kept, otherwise only a strictly smaller entry is taken.
Better(x, y) == ~IsNaN(y) /\ (IsNaN(x) \/ NpLess(x, y))

\* The scan of row.argmin() from position j on, best being the position
\* held so far (positions from 1).
RECURSIVE ArgMinFrom(_, _, _)
ArgMinFrom(row, j, best) ==
    IF j > Len(row) THEN best
    ELSE ArgMinFrom(row, j + 1, IF Better(row[j], row[best]) THEN j ELSE best)

\* row.argmin() as a 0-based index: the first nan when there is one, else
\* the first occurrence of the least entry.
ArgMin(row) == ArgMinFrom(row, 2, 1) - 1

\* scales ** 2
Squares(scales) == [i \in 1 .. Len(scales) |-> PySquare(scales[i])]

\* areas = np.repeat(area, num) / (scales ** 2)
Areas(squares, area) == [i \in 1 .. Len(squares) |-> NpDiv(area, squares[i])]

\* The two axes exchanged: areas[np.newaxis, :] * (scales[:, np.newaxis] ** 2).
DiffAreasTransposed(areas, squares) ==
    [i \in 1 .. Len(areas) |->
        [j \in 1 .. Len(squares) |-> NpAbsDiff(NpMul(areas[j], squares[i]))]]

\* scaled_areas = areas[:, np.newaxis] * (scales[np.newaxis, :] ** 2)
\* diff_areas = np.abs(scaled_areas - 224 * 224)
DiffAreasOf(areas, squares) ==
    [i \in 1 .. Len(areas) |->
        [j \in 1 .. Len(squares) |-> NpAbsDiff(NpMul(areas[i], squares[j]))]]

DiffAreas(scales, area) ==
    DiffAreasOf(Areas(Squares(scales), area), Squares(scales))

\* levels = diff_areas.argmin(axis=1)
Levels(scales, area) ==
    LET diff_areas == DiffAreas(scales, area)
    IN  [i \in 1 .. Len(diff_areas) |-> I(ArgMin(diff_areas[i]))]

\* A float32 entry of ASPECT_WIDTHS or ASPECT_HEIGHTS, kept in closed form:
\* times * sqrt(of).
Root(of, times) == [t |-> "float32", of |-> of, times |-> times]

\* widths[i] = math.sqrt(area / aspect[i])
Widths(area, aspect) ==
    [i \in 1 .. Len(aspect) |-> Root(PyDiv(area, aspect[i]), I(1))]

\* heights[i] = widths[i] * aspect[i]
Heights(area, aspect) ==
    [i \in 1 .. Len(aspect) |-> Root(PyDiv(area, aspect[i]), aspect[i])]

\* _add_more_info on config c for section sec ("TRAIN" when is_train, else
\* "TEST"): the config it leaves, the exception it raises, if any, and the
\* indices it subscripted SCALES_BASE with.  Each derived value is stored as
\* soon as it is computed, so a later exception leaves the earlier ones set.
AddMoreInfoResult(c, sec) ==
    LET o == c.kv[sec].kv
        loop == ScalesLoop(o.SCALES_BASE.e, o.NUM_PER_OCTAVE.n, 0, <<>>, {})
        out(cc, e) == [cfg |-> cc, exc |-> e, reads |-> loop.reads]
        c1 == Set(c, <<sec, "SCALES">>, List(loop.scales))
    IN  IF loop.exc # "none" THEN out(c, loop.exc)
        ELSE IF IsZero(o.SPATIAL_SCALE) THEN out(c1, "ZeroDivisionError")
        ELSE
        LET kernel_size == PyDiv(o.KERNEL_SIZE, o.SPATIAL_SCALE)
            area == PyMul(kernel_size, kernel_size)
            c2 == Set(c1, <<sec, "SCALE_MAPPING">>,
                      NdArray(Levels(loop.scales, area)))
            area2 == PyMul(o.KERNEL_SIZE, o.KERNEL_SIZE)
            aspect == o.ASPECTS.e
        IN  IF \E i \in 1 .. Len(aspect) : IsZero(aspect[i])
            THEN out(c2, "ZeroDivisionError")
            ELSE out(Set(Set(c2, <<sec, "ASPECT_WIDTHS">>,
                             NdArray(Widths(area2, aspect))),
                         <<sec, "ASPECT_HEIGHTS">>,
                         NdArray(Heights(area2, aspect))),
                     "none")

\* The names _add_more_info stores its results under.
DerivedKeys == {"SCALES", "SCALE_MAPPING", "ASPECT_WIDTHS", "ASPECT_HEIGHTS"}

\* The derived values are those of the options as they were before the merge
\* (computed when the module is imported), stored into the merged config.
AddMoreInfoOfDefaults(sec, after) ==
    \E r \in {AddMoreInfoResult(cfg0, sec)} :
        /\ cfg' = Set(cfg, <<sec>>,
                      Edict([k \in DOMAIN cfg.kv[sec].kv \cup DerivedKeys |->
                                IF k \in DerivedKeys THEN r.cfg.kv[sec].kv[k]
                                ELSE cfg.kv[sec].kv[k]]))
        /\ exc' = r.exc
        /\ reads' = [reads EXCEPT ![sec] = r.reads]
        /\ pc' = IF r.exc = "none" THEN after ELSE "raised"
        /\ UNCHANGED <<yaml_cfg, stack, cfg0, assigned, offending>>

\* One call _add_more_info(is_train) made by cfg_from_file; an exception
\* leaves cfg_from_file, a return goes on at position after.
AddMoreInfo(sec, after) ==
    \E r \in {AddMoreInfoResult(cfg, sec)} :
        /\ cfg' = r.cfg
        /\ exc' = r.exc
        /\ reads' = [reads EXCEPT ![sec] = r.reads]
        /\ pc' = IF r.exc = "none" THEN after ELSE "raised"
        /\ UNCHANGED <<yaml_cfg, stack, cfg0, assigned, offending>>

\* _add_more_info(1)
AddMoreInfoTrain == pc = "info_train" /\ AddMoreInfo("TRAIN", "info_test")

\* _add_more_info(0)
AddMoreInfoTest == pc = "info_test" /\ AddMoreInfo("TEST", "done")

(* --------------------------- specifications ---------------------------- *)

Next ==
    \/ CfgFromFile
    \/ MergeKeyError
    \/ MergeValueError
    \/ MergeRecurse
    \/ MergeAssign
    \/ MergeReturn
    \/ AddMoreInfoTrain
    \/ AddMoreInfoTest

Spec == Init /\ [][Next]_vars

\* Numbers a drawn SCALES_BASE is made of: whole and fractional ones.
ScaleVals == {I(1), I(2), F(1, 2), F(2, 1)}

\* The tuples of 1 .. MaxLen scale values.
ScaleTuples == UNION {[1 .. m -> ScaleVals] : m \in 1 .. MaxLen}

\* KERNEL_SIZE and SPATIAL_SCALE pairs drawn with them.
KernelVals == {<<I(5), F(1, 16)>>, <<I(7), F(1, 8)>>}

\* Config c with the options of section sec that _add_more_info reads
\* overridden, as a merged override file leaves them.
WithOptions(c, sec, sb, n, k, sp) ==
    Set(Set(Set(Set(c, <<sec, "SCALES_BASE">>, Tuple(sb)),
                <<sec, "NUM_PER_OCTAVE">>, I(n)),
            <<sec, "KERNEL_SIZE">>, k),
        <<sec, "SPATIAL_SCALE">>, sp)

Other(sec) == IF sec = "TRAIN" THEN "TEST" ELSE "TRAIN"

\* The state cfg_from_file is in when the merge has returned, for override
\* files that set the scale options of one section and reduce the other
\* section to the single scale 1.0.
InitInfo ==
    /\ \E sec \in {"TRAIN", "TEST"}, sb \in ScaleTuples, n \in 1 .. MaxN,
          ks \in KernelVals :
          cfg = WithOptions(Set(DefaultCfg, <<Other(sec), "SCALES_BASE">>,
                                Tuple(<<F(1, 1)>>)),
                            sec, sb, n, ks[1], ks[2])
    /\ yaml_cfg = Edict(<<>>)
    /\ stack = <<>>
    /\ pc = "info_train"
    /\ exc = "none"
    /\ cfg0 = cfg
    /\ assigned = {}
    /\ offending = <<>>
    /\ reads = [TRAIN |-> {}, TEST |-> {}]

NextInfo ==
    \/ AddMoreInfoTrain
    \/ AddMoreInfoTest

SpecInfo == InitInfo /\ [][NextInfo]_vars

(* ------------------------ properties of the merge ---------------------- *)

\* _merge_a_into_b(yaml_cfg, __C) has returned to cfg_from_file and nothing has
\* run since.
MergeReturned == pc = "info_train"

\* _merge_a_into_b(yaml_cfg, __C) has raised.
MergeRaised == pc = "raised" /\ offending # <<>>

\* The call of _merge_a_into_b is over, by return or by exception.
MergeOver == pc \notin {"start", "merge"}

\* The key paths of a that do not exist in b at the same key path.
MissingPaths == {p \in Paths(yaml_cfg) : ~Has(cfg0, p)}

\* The key paths present in a and b whose value in a is not of the type of
\* b's value.
MismatchPaths ==
    {p \in Paths(yaml_cfg) : Has(cfg0, p) /\ ~SameType(Get(cfg0, p), Get(yaml_cfg, p))}

\* b has the same keys, in the same sections, as before the merge.
SameKeys ==
    /\ Paths(cfg) = Paths(cfg0)
    /\ SectionPaths(cfg) = SectionPaths(cfg0)

\* C1: after _merge_a_into_b(a, b) returns without raising, every leaf
\* option a specifies, at any depth, exists in b at the same key path and b
\* holds exactly a's value for it.
C1_Clobbers ==
    MergeReturned =>
        \A p \in LeafPaths(yaml_cfg) : Has(cfg, p) /\ Get(cfg, p) = Get(yaml_cfg, p)

\* A merge has returned that changed a top-level option and a nested one.
C1_Witness ==
    /\ MergeReturned
    /\ \E p, q \in LeafPaths(yaml_cfg) :
          /\ Len(p) = 1 /\ Len(q) = 2
          /\ Get(cfg0, p) # Get(yaml_cfg, p)
          /\ Get(cfg0, q) # Get(yaml_cfg, q)

\* C2 as stated: whenever a contains, at any depth, a key that does not
\* exist in b at the same key path, the merge raises KeyError.
C2_AlwaysKeyError == (MergeOver /\ MissingPaths # {}) => exc = "KeyError"

\* C2 amended: whenever a contains a key that does not exist in b at the
\* same key path the merge raises; the exception is KeyError when the key
\* that stops the merge is absent from b, and ValueError when a key whose
\* type mismatches is met first; b's keys are never changed by the merge.
C2_RaisesAndAddsNoKey ==
    /\ (MergeOver /\ MissingPaths # {}) =>
          /\ MergeRaised
          /\ exc \in {"KeyError", "ValueError"}
          /\ exc = "KeyError" <=> offending \in MissingPaths
          /\ exc = "ValueError" <=> offending \in MismatchPaths
    /\ (MergeReturned \/ MergeRaised) => SameKeys

\* A merge stopped by KeyError on a nested unknown key.
C2_Witness ==
    /\ MergeRaised /\ exc = "KeyError"
    /\ Len(offending) = 2 /\ offending \in MissingPaths

\* C3 as stated: whenever a key present in a and b has a value in a of
\* another type than b's value, the merge raises ValueError and leaves that
\* key's value in b as it was.
C3_AlwaysValueError ==
    (MergeOver /\ MismatchPaths # {}) =>
        /\ exc = "ValueError"
        /\ \A p \in MismatchPaths : Get(cfg, p) = Get(cfg0, p)

\* C3 amended: whenever a key present in a and b has a value in a of
\* another type than b's value, the merge raises and leaves that key's value
\* in b as it was; the exception is ValueError when the key that stops the
\* merge is such a key, and KeyError when a key absent from b is met first.
C3_RaisesAndKeepsValue ==
    (MergeOver /\ MismatchPaths # {}) =>
        /\ MergeRaised
        /\ exc \in {"KeyError", "ValueError"}
        /\ exc = "ValueError" <=> offending \in MismatchPaths
        /\ exc = "KeyError" <=> offending \in MissingPaths
        /\ \A p \in MismatchPaths : Get(cfg, p) = Get(cfg0, p)

\* A merge stopped by ValueError on an int given for a float option.
C3_Witness ==
    /\ MergeRaised /\ exc = "ValueError"
    /\ offending \in MismatchPaths
    /\ Get(cfg0, offending).t = "float" /\ Get(yaml_cfg, offending).t = "int"

\* C5: a merge that returns changes only the options a specifies: every
\* other option of b keeps its value and b and its sections keep their keys.
C5_Frame ==
    MergeReturned =>
        /\ SameKeys
        /\ \A p \in LeafPaths(cfg0) \ LeafPaths(yaml_cfg) : Get(cfg, p) = Get(cfg0, p)

\* A merge has returned that changed an option of TRAIN, leaving the other
\* options of TRAIN to the frame.
C5_Witness ==
    /\ MergeReturned
    /\ \E p \in LeafPaths(yaml_cfg) : Len(p) = 2 /\ Get(cfg, p) # Get(cfg0, p)

\* C8: when the merge raises, b keeps its keys, the options assigned before
\* the offending key hold a's value, and every other option, the offending
\* key and the keys not reached included, holds its value from before.
C8_NoRollback ==
    MergeRaised =>
        /\ exc \in {"KeyError", "ValueError"}
        /\ SameKeys
        /\ offending \notin assigned
        /\ assigned \subseteq LeafPaths(yaml_cfg)
        /\ \A p \in LeafPaths(cfg0) :
              Get(cfg, p) = IF p \in assigned THEN Get(yaml_cfg, p) ELSE Get(cfg0, p)

\* A merge raised after it had overwritten an option with a new value.
C8_Witness ==
    /\ MergeRaised
    /\ \E p \in assigned : Get(cfg, p) # Get(cfg0, p)

(* --------------------- properties of cfg_from_file --------------------- *)

\* The derived values section sec of config c holds.
Derived(c, sec) ==
    [k \in DerivedKeys \cap DOMAIN c.kv[sec].kv |-> c.kv[sec].kv[k]]

\* The derived values _add_more_info computes for section sec of config c.
DerivedFrom(c, sec) == Derived(AddMoreInfoResult(c, sec).cfg, sec)

\* b with every leaf option a specifies replaced by a's value, for an a all
\* of whose keys exist in b with the same type.
RECURSIVE Overridden(_, _)
Overridden(b, a) ==
    Edict([k \in DOMAIN b.kv |->
              IF k \notin DOMAIN a.kv THEN b.kv[k]
              ELSE IF IsSection(a.kv[k]) THEN Overridden(b.kv[k], a.kv[k])
              ELSE a.kv[k]])

\* C4: in cfg_from_file no derived value is computed or changed before the
\* merge has returned, nor when the merge raises; the derived values of
\* TRAIN, and then those of TEST, are the ones computed from the options as
\* overridden by the file.
C4_DerivedAfterMerge ==
    /\ (pc \in {"start", "merge", "info_train"} \/ MergeRaised) =>
          \A sec \in {"TRAIN", "TEST"} : Derived(cfg, sec) = Derived(cfg0, sec)
    /\ pc \in {"info_test", "done"} =>
          Derived(cfg, "TRAIN") = DerivedFrom(Overridden(cfg0, yaml_cfg), "TRAIN")
    /\ pc = "info_test" => Derived(cfg, "TEST") = Derived(cfg0, "TEST")
    /\ pc = "done" =>
          Derived(cfg, "TEST") = DerivedFrom(Overridden(cfg0, yaml_cfg), "TEST")

\* cfg_from_file has finished for a file whose overrides make the derived
\* values of TRAIN differ from those of the defaults.
C4_Witness ==
    /\ pc = "done"
    /\ LeafPaths(yaml_cfg) # {}
    /\ Derived(cfg, "TRAIN") # DerivedFrom(cfg0, "TRAIN")

(* --------------------- properties of _add_more_info -------------------- *)

Sections == {"TRAIN", "TEST"}

\* _add_more_info has stored SCALES for section sec.
HasScales(sec) == "SCALES" \in DOMAIN cfg.kv[sec].kv

\* _add_more_info has stored SCALE_MAPPING for section sec.
HasMapping(sec) == "SCALE_MAPPING" \in DOMAIN cfg.kv[sec].kv

Base(sec) == cfg.kv[sec].kv.SCALES_BASE.e
PerOctave(sec) == cfg.kv[sec].kv.NUM_PER_OCTAVE.n
Scales(sec) == cfg.kv[sec].kv.SCALES.e
Mapping(sec) == cfg.kv[sec].kv.SCALE_MAPPING.e

\* Two numbers are the same number, whatever their types.
SameNumber(x, y) == x.n * y.d = y.n * x.d

\* The number b0 + j * (b1 - b0) / n.
EvenlySpaced(b0, b1, j, n) ==
    F(b0.n * b1.d * n + j * (b1.n * b0.d - b0.n * b1.d), b0.d * b1.d * n)

\* C6 as stated: for SCALES_BASE of m >= 1 numbers, whole or fractional,
\* and NUM_PER_OCTAVE n >= 1, SCALES has (m-1)*n+1 entries, entry k*n is
\* SCALES_BASE[k], and entry k*n+j, 0 < j < n, is
\* SCALES_BASE[k] + j*(SCALES_BASE[k+1]-SCALES_BASE[k])/n.
C6_EvenlySpacedScales ==
    \A sec \in Sections :
        HasScales(sec) =>
            LET base == Base(sec)
                m == Len(base)
                n == PerOctave(sec)
                scales == Scales(sec)
            IN  /\ Len(scales) = (m - 1) * n + 1
                /\ \A k \in 0 .. m - 1 : SameNumber(scales[k * n + 1], base[k + 1])
                /\ \A k \in 0 .. m - 2 : \A j \in 1 .. n - 1 :
                      SameNumber(scales[k * n + j + 1],
                                 EvenlySpaced(base[k + 1], base[k + 2], j, n))

\* A = (KERNEL_SIZE / SPATIAL_SCALE)^2 of section sec.
KernelArea(sec) ==
    PySquare(F(cfg.kv[sec].kv.KERNEL_SIZE.n * cfg.kv[sec].kv.SPATIAL_SCALE.d,
               cfg.kv[sec].kv.KERNEL_SIZE.d * cfg.kv[sec].kv.SPATIAL_SCALE.n))

\* |A * (s_j / s_i)^2 - 224*224| for s_i # 0.
MappingError(A, si, sj) ==
    LET ratio == F(sj.n * si.d, sj.d * si.n)
        v == PySub(PyMul(A, PySquare(ratio)), Target)
    IN  [v EXCEPT !.n = Abs(@)]

\* C7: SCALE_MAPPING has one entry per entry of SCALES; entry i is an index
\* into SCALES and, the quotient by SCALES[i] being defined, the lowest
\* index j that minimises |A * (SCALES[j]/SCALES[i])^2 - 224*224|.
C7_ScaleMapping ==
    \A sec \in Sections :
        HasMapping(sec) =>
            LET scales == Scales(sec)
                levels == Mapping(sec)
                A == KernelArea(sec)
                err == [i \in 1 .. Len(scales) |->
                           [j \in 1 .. Len(scales) |->
                               IF IsZero(scales[i]) THEN Inf
                               ELSE MappingError(A, scales[i], scales[j])]]
            IN  /\ Len(levels) = Len(scales)
                /\ \A i \in 1 .. Len(levels) :
                      LET l == levels[i].n + 1
                      IN  /\ l \in 1 .. Len(scales)
                          /\ ~IsZero(scales[i]) =>
                                /\ \A j \in 1 .. Len(scales) :
                                      ~NumLess(err[i][j], err[i][l])
                                /\ \A j \in 1 .. l - 1 :
                                      NumLess(err[i][l], err[i][j])

\* A mapping of at least three scales that sends two scales to different
\* levels and some scale to a level that is neither the first nor the last.
C7_Witness ==
    \E sec \in Sections :
        /\ HasMapping(sec)
        /\ Len(Mapping(sec)) >= 3
        /\ \E i, k \in 1 .. Len(Mapping(sec)) :
              /\ Mapping(sec)[i] # Mapping(sec)[k]
              /\ Mapping(sec)[i].n \notin {0, Len(Mapping(sec)) - 1}

\* C9: every index the scale loop subscripts SCALES_BASE with lies in
\* 0 .. m-1: they are i div n, and i div n + 1 when i mod n # 0, for the
\* loop counters i in 0 .. (m-1)*n, and no read raises IndexError.
C9_ReadsInRange ==
    /\ exc # "IndexError"
    /\ \A sec \in Sections :
          reads[sec] # {} =>
              LET m == Len(Base(sec))
                  n == PerOctave(sec)
                  counters == 0 .. (m - 1) * n
              IN  /\ reads[sec] \subseteq 0 .. m - 1
                  /\ reads[sec] = {i \div n : i \in counters}
                                  \cup {(i \div n) + 1 : i \in {c \in counters : c % n # 0}}

\* The loop has run for at least two base scales with n >= 2 and has read
\* every one of them, the last included.
C9_Witness ==
    \E sec \in Sections :
        /\ Len(Base(sec)) >= 2 /\ PerOctave(sec) >= 2
        /\ reads[sec] = 0 .. Len(Base(sec)) - 1

====
